---------------------------- MODULE Spec2Model ----------------------------
(***************************************************************************)
(* A model of notebooks/utils.py: the batched PCA transform loop (pca),    *)
(* the genomic interval test (overlap), the peak filter (filter_peaks),    *)
(* the distributed column reducer (sum_csr_matrix) and the partitioned     *)
(* loader (read_with_filter with its reader task).                         *)
(*                                                                         *)
(* Each function has its own variables, its own initial condition and its  *)
(* own specification; the variables of the other functions stay at their   *)
(* idle values.  Python's 0-based indices are kept as values (row numbers, *)
(* column indices, row pointers); only positions in TLA+ sequences are     *)
(* 1-based, so element i of a Python list is element i+1 of the sequence.  *)
(***************************************************************************)
EXTENDS Integers, Sequences, FiniteSets, TLC

VARIABLES
    \* pca
    pca_rows,         \* adata.X.shape[0]
    n_batches,        \* the n_batches argument
    pca_batch_size,   \* batch_size (line 51)
    batch,            \* the loop variable of line 52
    embeddings,       \* per row of embeddings: how often line 59 wrote it
    written,          \* the [start_idx, end_idx) ranges line 59 wrote, in order
    pca_pc,
    \* overlap
    gene, fragment, upstream, downstream, ov_result, ov_pc,
    \* filter_peaks
    X,                \* adata.X, a dense count matrix
    n_top_peaks,
    use,              \* the column indices of line 130
    fp_pc,
    \* sum_csr_matrix
    csr_matrix,       \* the partitioned input: the chunk of each partition
    parts,            \* line 145: <<worker, partition>> pairs
    futures,          \* line 146: one record per submitted task
    objs,             \* line 151
    sum_i,            \* the loop variable of line 152
    sum_result,       \* the concatenation of line 157, as its rows
    sum_pc,
    \* read_with_filter
    h5f,              \* the file: data, indices, indptr (/X) and genes (/var/_index)
    batch_size, min_genes_per_cell, max_genes_per_cell, min_cells, num_cells,
    total_cols, max_cells,
    dls,              \* line 218: a record per deferred reader task
    dask_shape,       \* the shape dask_sparse_arr declares (printed on line 232)
    reader_runs,      \* how many times the reader tasks were handed to the scheduler
    gene_wise_cell_cnt, query,
    genes,            \* the gene-label list
    computed,         \* the value of dask_sparse_arr.compute() on line 242
    sparse_gpu_array, \* the returned matrix
    trace,            \* the phases gone through, in order
    pc

pcaVars == <<pca_rows, n_batches, pca_batch_size, batch, embeddings, written, pca_pc>>
ovVars == <<gene, fragment, upstream, downstream, ov_result, ov_pc>>
fpVars == <<X, n_top_peaks, use, fp_pc>>
sumVars == <<csr_matrix, parts, futures, objs, sum_i, sum_result, sum_pc>>
rdVars == <<h5f, batch_size, min_genes_per_cell, max_genes_per_cell, min_cells, num_cells,
            total_cols, max_cells, dls, dask_shape, reader_runs, gene_wise_cell_cnt,
            query, genes, computed, sparse_gpu_array, trace, pc>>
vars == <<pcaVars, ovVars, fpVars, sumVars, rdVars>>

---------------------------------------------------------------------------
(* Helpers *)

Min(a, b) == IF a <= b THEN a ELSE b

Max(a, b) == IF a >= b THEN a ELSE b

RECURSIVE SumSeq(_)
SumSeq(s) == IF s = <<>> THEN 0 ELSE Head(s) + SumSeq(Tail(s))

\* Python's s[a:b] for 0 <= a, 0 <= b: the elements at 0-based positions a..b-1,
\* both ends clipped to the length.
Slice(s, a, b) == SubSeq(s, Min(a, Len(s)) + 1, Min(b, Len(s)))

\* Python's s[-n:] for n >= 0.  A negative start counts from the end and is
\* clipped at 0; -0 is 0, so s[-0:] is the whole of s.
SliceLast(s, n) ==
    LET start == IF n = 0 THEN 0 ELSE Max(Len(s) - n, 0)
    IN  Slice(s, start, Len(s))

---------------------------------------------------------------------------
(* pca, lines 50-59: the transform loop.  The fit of line 48 and the       *)
(* numeric transform are the decomposition library's; what is modelled is  *)
(* which rows of the zero-filled embeddings each iteration writes.         *)

MaxRows == 7
MaxBatches == 5

PcaIdle ==
    /\ pca_rows = 0 /\ n_batches = 0 /\ pca_batch_size = 0 /\ batch = 0
    /\ embeddings = <<>> /\ written = <<>> /\ pca_pc = "idle"

\* line 51: int(embeddings.shape[0] / n_batches), a true division truncated
PcaBatchSize(rows, nb) == rows \div nb

\* lines 50-51
PcaInit ==
    /\ pca_rows \in 1..MaxRows
    /\ n_batches \in 1..MaxBatches
    /\ pca_batch_size = PcaBatchSize(pca_rows, n_batches)
    /\ batch = 0
    /\ embeddings = [i \in 1..pca_rows |-> 0]
    /\ written = <<>>
    /\ pca_pc = "loop"

\* lines 53-57: the range of one iteration
PcaRange(b, bs, rows) ==
    LET start_idx == b * bs
        end_idx == start_idx + bs
    IN  <<start_idx, IF rows - end_idx < bs THEN rows ELSE end_idx>>

\* lines 52-59: one iteration of the loop
PcaBatch ==
    /\ pca_pc = "loop"
    /\ batch < n_batches
    /\ LET r == PcaRange(batch, pca_batch_size, pca_rows)
       IN  /\ embeddings' = [i \in 1..pca_rows |->
                               IF r[1] <= i - 1 /\ i - 1 < Min(r[2], pca_rows)
                               THEN embeddings[i] + 1 ELSE embeddings[i]]
           /\ written' = Append(written, r)
    /\ batch' = batch + 1
    /\ UNCHANGED <<pca_rows, n_batches, pca_batch_size, pca_pc>>

\* lines 52, 64-65: the loop is exhausted, the embeddings are attached
PcaReturn ==
    /\ pca_pc = "loop"
    /\ batch = n_batches
    /\ pca_pc' = "done"
    /\ UNCHANGED <<pca_rows, n_batches, pca_batch_size, batch, embeddings, written>>

---------------------------------------------------------------------------
(* overlap, lines 104-120.  A gene is <<chrom, start, end, strand>>, a     *)
(* fragment <<chrom, start, end>>; gene[k] of the source is gene[k+1].     *)

MaxCoord == 3
MaxPad == 2

Chroms == {"chr1", "chr2"}
Strands == {"fwd", "rev"}

\* The calls of the module's documented examples.
ExampleCalls ==
    { [g |-> <<"chr1", 100, 200, "fwd">>, f |-> <<"chr1", 150, 160>>, u |-> 10000, d |-> 0],
      [g |-> <<"chr1", 100, 200, "fwd">>, f |-> <<"chr2", 150, 160>>, u |-> 10000, d |-> 0],
      [g |-> <<"chr1", 100, 200, "rev">>, f |-> <<"chr1", 60, 90>>, u |-> 50, d |-> 0],
      [g |-> <<"chr1", 100, 200, "rev">>, f |-> <<"chr1", 210, 240>>, u |-> 50, d |-> 0] }

GridCalls ==
    { [g |-> <<gc, gs, ge, st>>, f |-> <<fc, fs, fe>>, u |-> u, d |-> d] :
        gc \in {"chr1"}, gs \in 0..MaxCoord, ge \in 0..MaxCoord, st \in Strands,
        fc \in Chroms, fs \in 0..MaxCoord, fe \in 0..MaxCoord,
        u \in 0..MaxPad, d \in 0..MaxPad }

OvIdle ==
    /\ gene = <<>> /\ fragment = <<>> /\ upstream = 0 /\ downstream = 0
    /\ ov_result = "idle" /\ ov_pc = "idle"

OvInit ==
    /\ \E c \in GridCalls \cup ExampleCalls :
          /\ gene = c.g /\ fragment = c.f /\ upstream = c.u /\ downstream = c.d
    /\ ov_result = "pending"
    /\ ov_pc = "call"

\* lines 109-112: the paddings after the swap for a reverse-strand gene
OverlapNoSwap(g, u, d) == <<u, d>>

OverlapPads(g, u, d) == IF g[4] = "rev" THEN <<d, u>> ELSE <<u, d>>

\* lines 109-120; falling off the end of the function returns None
overlapElseFalse(g, f, u, d) ==
    LET p == IF g[4] = "rev" THEN <<d, u>> ELSE <<u, d>>
        up == p[1]
        down == p[2]
    IN  IF g[1] # f[1] THEN "False"
        ELSE IF g[3] + down >= f[2] /\ g[2] - up <= f[2] THEN "True"
        ELSE IF g[3] + down >= f[3] /\ g[2] - up <= f[3] THEN "True"
        ELSE IF g[2] - up >= f[2] /\ g[3] + down <= f[3] THEN "True"
        ELSE "False"

overlap(g, f, u, d) ==
    LET p == OverlapPads(g, u, d)
        up == p[1]
        down == p[2]
    IN  IF g[1] # f[1] THEN "False"
        ELSE IF g[3] + down >= f[2] /\ g[2] - up <= f[2] THEN "True"
        ELSE IF g[3] + down >= f[3] /\ g[2] - up <= f[3] THEN "True"
        ELSE IF g[2] - up >= f[2] /\ g[3] + down <= f[3] THEN "True"
        ELSE "None"

OverlapCall ==
    /\ ov_pc = "call"
    /\ ov_result' = overlap(gene, fragment, upstream, downstream)
    /\ ov_pc' = "done"
    /\ UNCHANGED <<gene, fragment, upstream, downstream>>

---------------------------------------------------------------------------
(* filter_peaks, lines 123-131.  X[r][c] is the count of row r, column c   *)
(* (1-based positions); `use` holds 0-based column indices.                *)

MaxPeakRows == 2
MaxPeakCols == 3
MaxCount == 1

FpIdle == X = <<>> /\ n_top_peaks = 0 /\ use = <<>> /\ fp_pc = "idle"

FpInit ==
    /\ \E r \in 1..MaxPeakRows, c \in 1..MaxPeakCols :
          /\ X \in [1..r -> [1..c -> 0..MaxCount]]
          /\ n_top_peaks \in 0..c
    /\ use = <<>>
    /\ fp_pc = "call"

NumCols(m) == Len(m[1])

\* line 127: np.sum(adata.X > 0, axis=0), indexed by column position
peak_occurrences(m) ==
    [c \in 1..NumCols(m) |-> Cardinality({r \in 1..Len(m) : m[r][c] > 0})]

\* line 128: occurrences / shape[0].  All columns share the denominator
\* shape[0] >= 1, so a frequency is kept as its numerator and compared so.
peak_frequency(m) == peak_occurrences(m)

\* line 129: np.argsort, whose default sort is not stable: any ordering of the
\* 0-based column indices that is ascending in frequency.
ArgSorts(freq) ==
    LET n == Len(freq)
    IN  { p \in [1..n -> 0..(n - 1)] :
            /\ \A i, j \in 1..n : i # j => p[i] # p[j]
            /\ \A i \in 1..(n - 1) : freq[p[i] + 1] <= freq[p[i + 1] + 1] }

\* lines 127-131
FilterPeaks ==
    /\ fp_pc = "call"
    /\ \E frequent_peak_idxs \in ArgSorts(peak_frequency(X)) :
          use' = SliceLast(frequent_peak_idxs, n_top_peaks)
    /\ fp_pc' = "done"
    /\ UNCHANGED <<X, n_top_peaks>>

---------------------------------------------------------------------------
(* Compressed-row matrices: [data, indices, indptr, shape], as cupy and     *)
(* scipy hold them.  indptr has shape[1] + 1 entries, 0-based offsets into  *)
(* data and indices; column indices are 0-based.                            *)

RECURSIVE Flatten(_)
Flatten(ss) == IF ss = <<>> THEN <<>> ELSE Head(ss) \o Flatten(Tail(ss))

\* s[q] for a boolean mask q of the length of s
RECURSIVE MaskSeq(_, _)
MaskSeq(s, q) ==
    IF s = <<>> THEN <<>>
    ELSE (IF Head(q) THEN <<Head(s)>> ELSE <<>>) \o MaskSeq(Tail(s), Tail(q))

\* the stored entries, as <<column, value>> pairs
Entries(m) == [k \in 1..Len(m.data) |-> <<m.indices[k], m.data[k]>>]

\* the rows of m, each the entries between its two row pointers
CsrRows(m) == [i \in 1..m.shape[1] |-> Slice(Entries(m), m.indptr[i], m.indptr[i + 1])]

\* the compressed-row matrix of the given rows
FromRows(rows, cols) ==
    LET e == Flatten(rows)
    IN  [data |-> [k \in 1..Len(e) |-> e[k][2]],
         indices |-> [k \in 1..Len(e) |-> e[k][1]],
         indptr |-> [i \in 1..(Len(rows) + 1) |-> Len(Flatten(SubSeq(rows, 1, i - 1)))],
         shape |-> <<Len(rows), cols>>]

\* m[q] for a boolean row mask q
RowMask(m, q) == FromRows(MaskSeq(CsrRows(m), q), m.shape[2])

\* m[:, q] for a boolean column mask q: the kept columns are renumbered
ColMask(m, q) ==
    LET kept(e) == q[e[1] + 1]
        renum(e) == <<Cardinality({d \in 1..e[1] : q[d]}), e[2]>>
        row(r) == LET k == SelectSeq(r, kept) IN [j \in 1..Len(k) |-> renum(k[j])]
        rows == CsrRows(m)
    IN  FromRows([i \in 1..Len(rows) |-> row(rows[i])],
                 Cardinality({d \in 1..Len(q) : q[d]}))

\* the rows of several matrices, one below the other (concatenation on axis 0)
VStack(ms, cols) == FromRows(Flatten([i \in 1..Len(ms) |-> CsrRows(ms[i])]), cols)

RECURSIVE ColTotal(_, _, _)
ColTotal(m, c, k) ==
    IF k = 0 THEN 0
    ELSE (IF m.indices[k] = c THEN m.data[k] ELSE 0) + ColTotal(m, c, k - 1)

\* m.sum(axis=0): per column, the sum of the stored values
CsrSum0(m) == [c \in 1..m.shape[2] |-> ColTotal(m, c - 1, Len(m.data))]

\* a.sum(axis=0) of a dense array given as its rows
DenseSum0(rows, cols) ==
    [c \in 1..cols |-> SumSeq([i \in 1..Len(rows) |-> rows[i][c]])]

\* the compressed-row matrix of a dense one (only its nonzeros are stored)
ToCsr(D, cols) ==
    LET nz(e) == e[2] # 0
    IN  FromRows([i \in 1..Len(D) |->
                    SelectSeq([c \in 1..cols |-> <<c - 1, D[i][c]>>], nz)], cols)

NoMatrix == [data |-> <<>>, indices |-> <<>>, indptr |-> <<>>, shape |-> <<>>]

---------------------------------------------------------------------------
(* sum_csr_matrix, lines 135-157, for axis=0 (its one use, line 235).  The  *)
(* input is a partitioned array; a worker holds each persisted partition.   *)

MaxParts == 3
NumWorkers == 2

Workers == 1..NumWorkers

\* The chunks a partition may hold: the reader's outputs over two columns.
ChunkCatalogue ==
    { ToCsr(<<>>, 2), ToCsr(<< <<1, 0>> >>, 2), ToCsr(<< <<0, 2>> >>, 2),
      ToCsr(<< <<1, 1>>, <<2, 0>> >>, 2) }

SumIdle ==
    /\ csr_matrix = <<>> /\ parts = <<>> /\ futures = <<>> /\ objs = <<>>
    /\ sum_i = 0 /\ sum_result = <<>> /\ sum_pc = "idle"

SumInit ==
    /\ \E n \in 1..MaxParts : csr_matrix \in [1..n -> ChunkCatalogue]
    /\ parts = <<>> /\ futures = <<>> /\ objs = <<>>
    /\ sum_i = 0 /\ sum_result = <<>> /\ sum_pc = "extract"

\* lines 142-143
SumPart(x) == CsrSum0(x)

\* line 148: the workers a submitted task may run on
AnyWorker(w) == Workers

FutureWorkers(w) == {w}

\* line 145: the partitions are persisted, each on a worker of the scheduler's
\* choosing, and reported as <<worker, partition>> in partition order
ExtractPartitions ==
    /\ sum_pc = "extract"
    /\ \E who_has \in [1..Len(csr_matrix) -> Workers] :
          parts' = [i \in 1..Len(csr_matrix) |-> <<who_has[i], i>>]
    /\ sum_pc' = "submit"
    /\ UNCHANGED <<csr_matrix, futures, objs, sum_i, sum_result>>

\* the futures of lines 146-150, one per pair of parts, in order
SubmitAll(ps) ==
    [i \in 1..Len(ps) |->
        [part |-> ps[i][2], workers |-> FutureWorkers(ps[i][1]),
         status |-> "pending", ran_on |-> <<>>, value |-> <<>>]]

\* lines 146-151
Submit ==
    /\ sum_pc = "submit"
    /\ futures' = SubmitAll(parts)
    /\ objs' = <<>>
    /\ sum_i' = 0
    /\ sum_pc' = "collect"
    /\ UNCHANGED <<csr_matrix, parts, sum_result>>

\* A worker runs a submitted task: the scheduler picks a worker the task's
\* restriction allows.
RunTask ==
    /\ \E i \in 1..Len(futures), w \in Workers :
          /\ futures[i].status = "pending"
          /\ w \in futures[i].workers
          /\ futures' = [futures EXCEPT ![i] =
                           [@ EXCEPT !.status = "finished", !.ran_on = <<w>>,
                                     !.value = SumPart(csr_matrix[futures[i].part])]]
    /\ UNCHANGED <<csr_matrix, parts, objs, sum_i, sum_result, sum_pc>>

\* lines 152-156: futures[i].result() blocks until task i has finished
Collect ==
    /\ sum_pc = "collect"
    /\ sum_i < Len(futures)
    /\ futures[sum_i + 1].status = "finished"
    /\ objs' = Append(objs, [future |-> sum_i + 1,
                             shape |-> <<1, Len(futures[sum_i + 1].value)>>])
    /\ sum_i' = sum_i + 1
    /\ UNCHANGED <<csr_matrix, parts, futures, sum_result, sum_pc>>

\* line 157: the objs one below the other
Concatenate ==
    /\ sum_pc = "collect"
    /\ sum_i = Len(futures)
    /\ sum_result' = [k \in 1..Len(objs) |-> futures[objs[k].future].value]
    /\ sum_pc' = "done"
    /\ UNCHANGED <<csr_matrix, parts, futures, objs, sum_i>>

\* What sum_csr_matrix(chunks).compute() is: the partial sum of each partition,
\* in partition order.
sum_csr_matrix(chunks) == [i \in 1..Len(chunks) |-> SumPart(chunks[i])]

---------------------------------------------------------------------------
(* read_with_filter, lines 160-243, and its reader task, lines 180-205.     *)
(* An absent num_cells (None) is <<>>, a given one <<n>>.                   *)

MaxCells == 3
MaxNnz == 2
MaxBatch == 3
MaxMinCells == 2

\* the gene labels of the files (/var/_index) and the values they store (/X/data)
GeneLabels == <<"gene0", "gene1">>
StoredValues == {1, 2}

\* the number of nonzeros of a dense matrix
Nnz(D) ==
    SumSeq([i \in 1..Len(D) |-> Cardinality({c \in 1..Len(GeneLabels) : D[i][c] # 0})])

\* the file of a dense matrix
FileOf(D) ==
    LET m == ToCsr(D, Len(GeneLabels))
    IN  [data |-> m.data, indices |-> m.indices, indptr |-> m.indptr,
         genes |-> GeneLabels]

RdIdle ==
    /\ h5f = <<>> /\ batch_size = 0 /\ min_genes_per_cell = 0 /\ max_genes_per_cell = 0
    /\ min_cells = 0 /\ num_cells = <<>> /\ total_cols = 0 /\ max_cells = 0
    /\ dls = <<>> /\ dask_shape = <<>> /\ reader_runs = 0 /\ gene_wise_cell_cnt = <<>>
    /\ query = <<>> /\ genes = <<>> /\ computed = NoMatrix
    /\ sparse_gpu_array = NoMatrix /\ trace = <<>> /\ pc = "idle"

RdInit ==
    /\ \E r \in 1..MaxCells :
          /\ \E D \in [1..r -> [1..Len(GeneLabels) -> {0} \cup StoredValues]] :
                /\ Nnz(D) <= MaxNnz
                /\ h5f = FileOf(D)
          /\ num_cells \in {<<>>} \cup {<<n>> : n \in 1..r}
    /\ batch_size \in 1..MaxBatch
    /\ min_genes_per_cell \in 0..Len(GeneLabels)
    /\ max_genes_per_cell \in 0..Len(GeneLabels)
    /\ min_cells \in 1..MaxMinCells
    /\ total_cols = 0 /\ max_cells = 0
    /\ dls = <<>> /\ dask_shape = <<>> /\ reader_runs = 0 /\ gene_wise_cell_cnt = <<>>
    /\ query = <<>> /\ genes = <<>> /\ computed = NoMatrix
    /\ sparse_gpu_array = NoMatrix /\ trace = <<>> /\ pc = "build"

\* lines 184-205
UnrebasedPointers(p) == p

RebasedPointers(p) == [i \in 1..Len(p) |-> p[i] - p[1]]

read_partition_to_sparse_matrix(f, cols, batch_start, batch_end, mn, mx) ==
    LET start_ptr == f.indptr[batch_start + 1]
        end_ptr == f.indptr[batch_end + 1]
        sub_data == Slice(f.data, start_ptr, end_ptr)
        sub_indices == Slice(f.indices, start_ptr, end_ptr)
        sub_indptrs == RebasedPointers(Slice(f.indptr, batch_start, batch_end + 1))
        partial_sparse_array ==
            [data |-> sub_data, indices |-> sub_indices, indptr |-> sub_indptrs,
             shape |-> <<batch_end - batch_start, cols>>]
        degrees == [i \in 1..(Len(sub_indptrs) - 1) |-> sub_indptrs[i + 1] - sub_indptrs[i]]
        q == [i \in 1..Len(degrees) |-> mn <= degrees[i] /\ degrees[i] <= mx]
    IN  RowMask(partial_sparse_array, q)

\* lines 214-216
MaxCellsOf(f, nc) == IF nc # <<>> THEN nc[1] ELSE Len(f.indptr) - 1

\* line 219: range(0, max_cells, batch_size)
BatchStarts(mc, bs) == [k \in 1..((mc + bs - 1) \div bs) |-> (k - 1) * bs]

\* line 225
BatchEndUnclipped(start, bs, mc) == start + bs

BatchEnd(start, bs, mc) == start + Min(bs, mc - start)

\* lines 220-229: the deferred reader task of one batch, with its declared shape
ReaderTask(start, bs, mc, cols) ==
    [batch_start |-> start, batch_end |-> BatchEnd(start, bs, mc), shape |-> <<bs, cols>>]

\* line 231: the shape the concatenation declares
DeclaredShape(tasks, cols) ==
    <<SumSeq([i \in 1..Len(tasks) |-> tasks[i].shape[1]]), cols>>

\* executing the reader tasks: the chunk of every partition
Chunks ==
    [i \in 1..Len(dls) |->
        read_partition_to_sparse_matrix(h5f, total_cols, dls[i].batch_start, dls[i].batch_end,
                                        min_genes_per_cell, max_genes_per_cell)]

\* lines 208-232: the header reads and the graph of deferred reader tasks.  The
\* reader is dask.delayed: building the graph runs no reader task.
BuildGraph ==
    /\ pc = "build"
    /\ LET cols == Len(h5f.genes)
           mc == MaxCellsOf(h5f, num_cells)
           starts == BatchStarts(mc, batch_size)
           tasks == [k \in 1..Len(starts) |-> ReaderTask(starts[k], batch_size, mc, cols)]
       IN  /\ total_cols' = cols
           /\ max_cells' = mc
           /\ genes' = h5f.genes
           /\ dls' = tasks
           /\ dask_shape' = DeclaredShape(tasks, cols)
    /\ reader_runs' = reader_runs
    /\ trace' = Append(trace, "build")
    /\ pc' = "reduce"
    /\ UNCHANGED <<h5f, batch_size, min_genes_per_cell, max_genes_per_cell, min_cells,
                   num_cells, gene_wise_cell_cnt, query, computed, sparse_gpu_array>>

\* line 235: the reducer persists the partitions, which runs the reader tasks
Reduce ==
    /\ pc = "reduce"
    /\ gene_wise_cell_cnt' = DenseSum0(sum_csr_matrix(Chunks), total_cols)
    /\ reader_runs' = reader_runs + 1
    /\ trace' = Append(trace, "reduce")
    /\ pc' = "mask"
    /\ UNCHANGED <<h5f, batch_size, min_genes_per_cell, max_genes_per_cell, min_cells,
                   num_cells, total_cols, max_cells, dls, dask_shape, query, genes,
                   computed, sparse_gpu_array>>

\* lines 236-240
MaskGenes ==
    /\ pc = "mask"
    /\ LET q == [c \in 1..total_cols |-> gene_wise_cell_cnt[c] >= min_cells]
       IN  /\ query' = q
           /\ genes' = MaskSeq(genes, q)
    /\ trace' = Append(trace, "mask_genes")
    /\ pc' = "compute"
    /\ UNCHANGED <<h5f, batch_size, min_genes_per_cell, max_genes_per_cell, min_cells,
                   num_cells, total_cols, max_cells, dls, dask_shape, reader_runs,
                   gene_wise_cell_cnt, computed, sparse_gpu_array>>

\* line 242: what dask_sparse_arr.compute() evaluates to, the chunks one below
\* the other; the column mask is not part of the graph.
ComputeMasked(chunks, cols, q) == ColMask(VStack(chunks, cols), q)

Compute(chunks, cols, q) == VStack(chunks, cols)

\* line 242, dask_sparse_arr.compute(): the graph of reader tasks is handed to
\* the scheduler a second time and the whole matrix is materialized.
Materialize ==
    /\ pc = "compute"
    /\ computed' = Compute(Chunks, total_cols, query)
    /\ reader_runs' = reader_runs + 1
    /\ trace' = Append(trace, "materialize")
    /\ pc' = "slice"
    /\ UNCHANGED <<h5f, batch_size, min_genes_per_cell, max_genes_per_cell, min_cells,
                   num_cells, total_cols, max_cells, dls, dask_shape, gene_wise_cell_cnt,
                   query, genes, sparse_gpu_array>>

\* lines 242-243: [:, query] on the materialized matrix, and the return
MaskMatrix ==
    /\ pc = "slice"
    /\ sparse_gpu_array' = ColMask(computed, query)
    /\ trace' = Append(trace, "mask_matrix")
    /\ pc' = "done"
    /\ UNCHANGED <<h5f, batch_size, min_genes_per_cell, max_genes_per_cell, min_cells,
                   num_cells, total_cols, max_cells, dls, dask_shape, reader_runs,
                   gene_wise_cell_cnt, query, genes, computed>>

---------------------------------------------------------------------------
(* Specifications *)

InitPca == PcaInit /\ OvIdle /\ FpIdle /\ SumIdle /\ RdIdle
NextPca ==
    \/ PcaBatch /\ UNCHANGED <<ovVars, fpVars, sumVars, rdVars>>
    \/ PcaReturn /\ UNCHANGED <<ovVars, fpVars, sumVars, rdVars>>
SpecPca == InitPca /\ [][NextPca]_vars

InitOverlap == PcaIdle /\ OvInit /\ FpIdle /\ SumIdle /\ RdIdle
NextOverlap == OverlapCall /\ UNCHANGED <<pcaVars, fpVars, sumVars, rdVars>>
SpecOverlap == InitOverlap /\ [][NextOverlap]_vars

InitPeaks == PcaIdle /\ OvIdle /\ FpInit /\ SumIdle /\ RdIdle
NextPeaks == FilterPeaks /\ UNCHANGED <<pcaVars, ovVars, sumVars, rdVars>>
SpecPeaks == InitPeaks /\ [][NextPeaks]_vars

InitSum == PcaIdle /\ OvIdle /\ FpIdle /\ SumInit /\ RdIdle
NextSum ==
    \/ ExtractPartitions /\ UNCHANGED <<pcaVars, ovVars, fpVars, rdVars>>
    \/ Submit /\ UNCHANGED <<pcaVars, ovVars, fpVars, rdVars>>
    \/ RunTask /\ UNCHANGED <<pcaVars, ovVars, fpVars, rdVars>>
    \/ Collect /\ UNCHANGED <<pcaVars, ovVars, fpVars, rdVars>>
    \/ Concatenate /\ UNCHANGED <<pcaVars, ovVars, fpVars, rdVars>>
SpecSum == InitSum /\ [][NextSum]_vars

Init == PcaIdle /\ OvIdle /\ FpIdle /\ SumIdle /\ RdInit
Next ==
    \/ BuildGraph /\ UNCHANGED <<pcaVars, ovVars, fpVars, sumVars>>
    \/ Reduce /\ UNCHANGED <<pcaVars, ovVars, fpVars, sumVars>>
    \/ MaskGenes /\ UNCHANGED <<pcaVars, ovVars, fpVars, sumVars>>
    \/ Materialize /\ UNCHANGED <<pcaVars, ovVars, fpVars, sumVars>>
    \/ MaskMatrix /\ UNCHANGED <<pcaVars, ovVars, fpVars, sumVars>>
Spec == Init /\ [][Next]_vars

---------------------------------------------------------------------------
(* Properties of pca (SpecPca) *)

\* C1: when pca returns, the row ranges it wrote cover every row 0..R-1 exactly
\* once: no row of the embeddings is left at its zero fill, the range widths sum
\* to R and the last range ends at R.
OrigC1 ==
    pca_pc = "done" =>
        /\ \A i \in 1..pca_rows : embeddings[i] = 1
        /\ SumSeq([k \in 1..Len(written) |-> written[k][2] - written[k][1]]) = pca_rows
        /\ written[Len(written)][2] = pca_rows

---------------------------------------------------------------------------
(* Properties of overlap (SpecOverlap) *)

SameChrom == gene[1] = fragment[1]

\* C4 as stated: for a reverse-strand gene and downstream=0, a fragment on the
\* gene's chromosome lying within the `upstream` bases below the gene's start
\* makes overlap return True.
OrigC4 ==
    ( /\ ov_pc = "done" /\ gene[4] = "rev" /\ SameChrom /\ downstream = 0
      /\ gene[2] <= gene[3] /\ fragment[2] <= fragment[3]
      /\ gene[2] - upstream <= fragment[2] /\ fragment[3] < gene[2] )
    => ov_result = "True"

\* C4 amended: for a reverse-strand gene and downstream=0 the padding extends
\* the gene's end: a fragment on the gene's chromosome whose start or end lies
\* in [start, end + upstream] makes overlap return True, and one lying entirely
\* below the gene's start makes it return None.
AmendedC4 ==
    ( /\ ov_pc = "done" /\ gene[4] = "rev" /\ SameChrom /\ downstream = 0
      /\ gene[2] <= gene[3] )
    => /\ ( \/ (gene[2] <= fragment[2] /\ fragment[2] <= gene[3] + upstream)
            \/ (gene[2] <= fragment[3] /\ fragment[3] <= gene[3] + upstream) )
          => ov_result = "True"
       /\ (fragment[2] <= fragment[3] /\ fragment[3] < gene[2]) => ov_result = "None"

\* the documented reverse-strand call has been made
WitnessC4 ==
    /\ ov_pc = "done"
    /\ gene = <<"chr1", 100, 200, "rev">> /\ fragment = <<"chr1", 60, 90>>
    /\ upstream = 50 /\ downstream = 0
    /\ ov_result = "None"

\* C5: for a gene with start <= end and non-negative paddings (swapped for a
\* reverse-strand gene), overlap returns False exactly when the chromosomes
\* differ; on equal chromosomes it returns True exactly when the fragment's
\* start or end lies in the padded span or the unpadded gene lies inside the
\* fragment, and None otherwise.
ClaimC5 ==
    (ov_pc = "done" /\ gene[2] <= gene[3] /\ upstream >= 0 /\ downstream >= 0) =>
        LET up == IF gene[4] = "rev" THEN downstream ELSE upstream
            down == IF gene[4] = "rev" THEN upstream ELSE downstream
            lo == gene[2] - up
            hi == gene[3] + down
            hit == \/ (lo <= fragment[2] /\ fragment[2] <= hi)
                   \/ (lo <= fragment[3] /\ fragment[3] <= hi)
                   \/ (fragment[2] <= gene[2] /\ gene[3] <= fragment[3])
        IN  /\ (ov_result = "False") <=> ~SameChrom
            /\ SameChrom => ((ov_result = "True") <=> hit)
            /\ (SameChrom /\ ~hit) => ov_result = "None"

\* a padded reverse-strand gene inside a fragment whose two ends are both
\* outside the padded span
WitnessC5 ==
    /\ ov_pc = "done" /\ gene[4] = "rev" /\ SameChrom /\ gene[2] <= gene[3]
    /\ upstream > downstream
    /\ fragment[2] < gene[2] - downstream /\ fragment[3] > gene[3] + upstream
    /\ ov_result = "True"

---------------------------------------------------------------------------
(* Properties of filter_peaks (SpecPeaks) *)

\* C6: filter_peaks returns exactly n_top_peaks columns, and every column it
\* keeps is at least as frequent as every column it drops.
OrigC6 ==
    fp_pc = "done" =>
        LET freq == peak_frequency(X)
            kept == {use[k] : k \in 1..Len(use)}
            dropped == (0..(NumCols(X) - 1)) \ kept
        IN  /\ Len(use) = n_top_peaks
            /\ \A c \in kept, d \in dropped : freq[c + 1] >= freq[d + 1]

---------------------------------------------------------------------------
(* Properties of sum_csr_matrix (SpecSum) *)

\* C8: one task per partition, each restricted to and run on the worker that
\* parts reports as holding its partition; the result holds the partial sum of
\* every partition exactly once, in partition order.
ClaimC8 ==
    /\ sum_pc \in {"collect", "done"} =>
          /\ Len(futures) = Len(csr_matrix)
          /\ \A i \in 1..Len(futures) :
                /\ futures[i].part = i
                /\ parts[i][2] = i
                /\ futures[i].status = "finished" => futures[i].ran_on = <<parts[i][1]>>
    /\ sum_pc = "done" =>
          /\ Len(sum_result) = Len(csr_matrix)
          /\ \A i \in 1..Len(csr_matrix) : sum_result[i] = CsrSum0(csr_matrix[i])

\* two partitions with different partial sums, held by different workers
WitnessC8 ==
    /\ sum_pc = "done"
    /\ Len(csr_matrix) >= 2
    /\ parts[1][1] # parts[2][1]
    /\ sum_result[1] # sum_result[2]
    /\ futures[1].ran_on # futures[2].ran_on

---------------------------------------------------------------------------
(* Properties of read_with_filter (Spec) *)

\* the rows of the file below the row limit, and those the degree filter keeps
\* when it is applied to all of them at once
FileRows ==
    [i \in 1..max_cells |-> Slice(Entries(h5f), h5f.indptr[i], h5f.indptr[i + 1])]

WholeFilterRows ==
    LET q == [i \in 1..max_cells |->
                LET deg == h5f.indptr[i + 1] - h5f.indptr[i]
                IN  min_genes_per_cell <= deg /\ deg <= max_genes_per_cell]
    IN  MaskSeq(FileRows, q)

\* the number of surviving cells with a nonzero entry in 0-based column c
CellCount(c) ==
    Cardinality({i \in 1..Len(WholeFilterRows) :
                    \E k \in 1..Len(WholeFilterRows[i]) :
                       WholeFilterRows[i][k][1] = c /\ WholeFilterRows[i][k][2] # 0})

\* C2: a gene is retained, in the returned labels and in the returned matrix,
\* if and only if at least min_cells surviving cells have a nonzero entry in
\* its column.
OrigC2 ==
    pc = "done" =>
        LET keep == [c \in 1..total_cols |-> CellCount(c - 1) >= min_cells]
        IN  /\ query = keep
            /\ genes = MaskSeq(h5f.genes, keep)
            /\ sparse_gpu_array.shape[2] = Len(genes)

\* C3: the partition outputs, concatenated in batch order, are exactly the rows
\* the degree filter keeps on the whole matrix: same number, order, column
\* indices and values.
ClaimC3 ==
    pc \in {"slice", "done"} =>
        /\ CsrRows(computed) = WholeFilterRows
        /\ computed = FromRows(WholeFilterRows, total_cols)

\* several partitions, a row dropped and a stored entry kept beyond the first
\* partition's rows
WitnessC3 ==
    /\ pc = "slice"
    /\ Len(dls) >= 2
    /\ 0 < computed.shape[1] /\ computed.shape[1] < max_cells
    /\ Len(Chunks[2].data) > 0
    /\ Len(Chunks[1].data) > 0

\* C7 as stated: graph construction, reduction, mask application, final
\* materialization, in this order: no reader task runs before the reduction,
\* and the matrix that is materialized is already gene-filtered.
OrigC7 ==
    /\ reader_runs > 0 => \E j \in 1..Len(trace) : trace[j] = "reduce"
    /\ \A i \in 1..Len(trace) :
          trace[i] = "materialize" => \E j \in 1..(i - 1) : trace[j] = "mask_matrix"
    /\ computed # NoMatrix => computed.shape[2] = Len(genes)

PhaseOrder == <<"build", "reduce", "mask_genes", "materialize", "mask_matrix">>

\* C7 amended: graph construction, reduction, mask application to the gene
\* labels, final materialization, mask application to the matrix, in this
\* order: no reader task runs before the reduction, the matrix that is
\* materialized is the unfiltered one (all total_cols columns), and the matrix
\* returned is the gene-filtered one.
AmendedC7 ==
    /\ Len(trace) <= Len(PhaseOrder) /\ trace = SubSeq(PhaseOrder, 1, Len(trace))
    /\ reader_runs > 0 => Len(trace) >= 2
    /\ computed # NoMatrix =>
          /\ Len(trace) >= 4
          /\ computed.shape[2] = total_cols
    /\ sparse_gpu_array # NoMatrix =>
          /\ pc = "done"
          /\ sparse_gpu_array.shape[2] = Len(genes)
          /\ sparse_gpu_array.shape[1] = computed.shape[1]

\* a call that returned with a gene dropped
WitnessC7 ==
    /\ pc = "done"
    /\ \E c \in 1..total_cols : ~query[c]
    /\ computed.shape[2] = total_cols
    /\ sparse_gpu_array.shape[2] < total_cols
    /\ sparse_gpu_array.shape[1] > 0

\* C9: the reader tasks' row ranges are non-empty, start at 0, batch_size,
\* 2*batch_size, ..., are consecutive, each at most batch_size wide, and cover
\* [0, M) exactly, M being the file's row count or the given num_cells.
ClaimC9 ==
    pc # "build" =>
        LET M == IF num_cells = <<>> THEN Len(h5f.indptr) - 1 ELSE num_cells[1]
            n == Len(dls)
        IN  /\ n >= 1
            /\ \A k \in 1..n :
                  /\ dls[k].batch_start = (k - 1) * batch_size
                  /\ dls[k].batch_start < dls[k].batch_end
                  /\ dls[k].batch_end - dls[k].batch_start <= batch_size
            /\ \A k \in 1..(n - 1) : dls[k].batch_end = dls[k + 1].batch_start
            /\ dls[n].batch_end = M
            /\ \A row \in 0..(M - 1) :
                  Cardinality({k \in 1..n :
                      dls[k].batch_start <= row /\ row < dls[k].batch_end}) = 1
            /\ \A k \in 1..n : dls[k].batch_end <= M

\* a given num_cells, split into several batches with a narrower last one
WitnessC9 ==
    /\ pc = "reduce"
    /\ num_cells # <<>> /\ max_cells = num_cells[1]
    /\ Len(dls) >= 2
    /\ max_cells % batch_size # 0

\* C10: the row count declared for the concatenated matrix at graph
\* construction is the row count of the matrix once materialized.
OrigC10 ==
    pc \in {"slice", "done"} => dask_shape[1] = computed.shape[1]

=============================================================================
